---- MODULE Spec2Model ----
(***************************************************************************)
(* Model of llm-mindmap: the concurrent batch runner (src/src/llm/utils.py)*)
(* and the generation orchestrator                                         *)
(* (src/llm_mindmap/mindmap/mindmap_generator.py).                         *)
(*                                                                         *)
(* Indices are 1-based here (the code's idx 0 is index 1).                 *)
(***************************************************************************)
EXTENDS Integers, Sequences, FiniteSets, TLC

(* ---------------- bounds of the model ---------------- *)
MaxPrompts == 2
MaxWorkers == 2
MaxTransformFailures == 1
MaxCalls == 3
MaxIndex == 1
MaxIntervals == 2
MaxDynamicCalls == 1
MaxNodes == 3
MaxLen == 5

(* ---------------- program constants ---------------- *)
max_retries_bug == 5 - 1
max_retries == 5
InitialDelay == 1
MaxDelay == 60

VARIABLES
    prompts,               \* the prompt list of the batch call
    max_workers,           \* the worker bound of the batch call
    processing_callbacks,  \* TRUE when a chain of transforms is supplied
    engine,                \* llm_engine: outcome per (prompt, attempt), fixed once observed
    runner,                \* which batch function is executing
    pc,                    \* position of each task
    attempt,               \* attempts started by each task
    retry_delay,           \* each task's local retry_delay
    fetched,               \* value returned by each task's fetch: <<idx, response>>
    results,               \* the pre-sized results list
    collected,             \* futures already consumed by the as_completed loop
    semaphore,             \* asyncio.Semaphore of the cooperative runner
    calls,                 \* engine invocations per runner and prompt
    returned,              \* what each batch function returned to its caller
    disk,                  \* the result files under output_dir, by file name
    llm_calls,             \* get_response invocations made by the orchestrator
    ncalls,                \* orchestrator calls made so far
    last,                  \* the last orchestrator call: arguments and what it gave back
    dyn,                   \* the generate_dynamic call in progress: its locals
    input,                 \* the argument of a pure operation of the pipeline or the tree
    output                 \* what that operation gave back

batchVars == <<prompts, max_workers, processing_callbacks, engine, runner, pc,
               attempt, retry_delay, fetched, results, collected, semaphore,
               calls, returned>>

genVars == <<disk, llm_calls, ncalls, last, dyn>>

fnVars == <<input, output>>

vars == <<batchVars, genVars, fnVars>>

Runners == {"parallel", "concurrent"}
Idx == 1..Len(prompts)
Attempts == 1..max_retries

Min(S) == CHOOSE x \in S : \A y \in S : x <= y

(* ---------------- the request engine (collaborator) ---------------- *)
\* "raise": get_response raises; "ok": it returns and every transform succeeds;
\* "bad": it returns a text on which a transform raises.
Outcomes == IF processing_callbacks THEN {"raise", "ok", "bad"} ELSE {"raise", "ok"}

\* The text get_response returns for a prompt on a given attempt.
Response(i, a) == "R" \o ToString(i) \o "." \o ToString(a)

\* for func in processing_callbacks: response = func(response)
Process(response) == IF processing_callbacks THEN "f(" \o response \o ")" ELSE response

\* The engine answers attempt a of prompt i with outcome o.
BadSeen == Cardinality({x \in Idx \X Attempts : engine[x[1]][x[2]] = "bad"})

EngineGives(i, a, o) ==
    /\ o \in Outcomes
    /\ engine[i][a] \in {"unset", o}
    /\ (o = "bad" /\ engine[i][a] = "unset") => BadSeen < MaxTransformFailures
    /\ engine' = [engine EXCEPT ![i][a] = o]

NewDelay_additive(d) == IF d + 1 < MaxDelay THEN d + 1 ELSE MaxDelay
\* retry_delay = min(retry_delay * 2, 60)
NewDelay(d) == IF d * 2 < MaxDelay THEN d * 2 ELSE MaxDelay

NotCalled == [status |-> "not_called", value |-> <<>>]

(* ---------------- entry of both runners ---------------- *)
\* if not prompts: raise ValueError
EnterBatch(r) ==
    /\ runner = "idle"
    /\ returned[r].status = "not_called"
    /\ IF Len(prompts) = 0
       THEN /\ returned' = [returned EXCEPT ![r] = [status |-> "raised", value |-> <<>>]]
            /\ UNCHANGED <<runner, results, semaphore>>
       ELSE /\ returned' = [returned EXCEPT ![r] = [status |-> "running", value |-> <<>>]]
            /\ runner' = r
            /\ results' = [i \in Idx |-> ""]
            /\ semaphore' = [value |-> IF r = "concurrent" THEN max_workers ELSE 0,
                             waiters |-> <<>>]
    /\ pc' = [i \in Idx |-> IF r = "parallel" THEN "unsubmitted" ELSE "created"]
    /\ attempt' = [i \in Idx |-> 0]
    /\ retry_delay' = [i \in Idx |-> InitialDelay]
    /\ fetched' = [i \in Idx |-> <<>>]
    /\ collected' = {}
    /\ UNCHANGED <<fnVars, genVars, prompts, max_workers, processing_callbacks, engine, calls>>

CallParallel == EnterBatch("parallel")

CallConcurrent == EnterBatch("concurrent")

(* ---------------- run_parallel_prompts: thread pool ---------------- *)
Running(i) == pc[i] \in {"fetch", "in_call", "sleep"}

\* executor.submit(fetch, idx, prompt), in the order of enumerate(prompts)
PSubmit(i) ==
    /\ runner = "parallel"
    /\ pc[i] = "unsubmitted"
    /\ \A j \in Idx : j < i => pc[j] # "unsubmitted"
    /\ pc' = [pc EXCEPT ![i] = "queued"]
    /\ UNCHANGED <<fnVars, genVars, prompts, max_workers, processing_callbacks, engine, runner,
                   attempt, retry_delay, fetched, results, collected, semaphore,
                   calls, returned>>

WorkerFree_unbounded == TRUE
\* ThreadPoolExecutor(max_workers): at most max_workers worker threads, one task each
WorkerFree == Cardinality({j \in Idx : Running(j)}) < max_workers

\* response = llm_engine.get_response(chat_history, **kwargs): the call begins
PInvoke(i) ==
    /\ attempt' = [attempt EXCEPT ![i] = @ + 1]
    /\ calls' = [calls EXCEPT !["parallel"][i] = @ + 1]
    /\ pc' = [pc EXCEPT ![i] = "in_call"]

\* a worker thread takes the oldest queued work item and enters fetch
PStart(i) ==
    /\ runner = "parallel"
    /\ pc[i] = "queued"
    /\ \A j \in Idx : j < i => pc[j] # "queued"
    /\ WorkerFree
    /\ pc' = [pc EXCEPT ![i] = "fetch"]
    /\ UNCHANGED <<fnVars, genVars, prompts, max_workers, processing_callbacks, engine, runner,
                   attempt, retry_delay, fetched, results, collected, semaphore,
                   calls, returned>>

\* the thread reaches the first iteration of the retry loop and starts its engine
\* call; threads that have entered fetch reach this point in any order
PCall(i) ==
    /\ runner = "parallel"
    /\ pc[i] = "fetch"
    /\ PInvoke(i)
    /\ UNCHANGED <<fnVars, genVars, prompts, max_workers, processing_callbacks, engine, runner,
                   retry_delay, fetched, results, collected, semaphore, returned>>

\* the call ends: return idx, response  /  except Exception: ... time.sleep(retry_delay)
PRespond(i) ==
    /\ runner = "parallel"
    /\ pc[i] = "in_call"
    /\ \E o \in Outcomes :
         /\ EngineGives(i, attempt[i], o)
         /\ IF o = "ok"
            THEN /\ fetched' = [fetched EXCEPT ![i] = <<i, Process(Response(i, attempt[i]))>>]
                 /\ pc' = [pc EXCEPT ![i] = "done"]
            ELSE /\ pc' = [pc EXCEPT ![i] = "sleep"]
                 /\ UNCHANGED fetched
    /\ UNCHANGED <<fnVars, genVars, prompts, max_workers, processing_callbacks, runner, attempt,
                   retry_delay, results, collected, semaphore, calls, returned>>

PMoreAttempts_short(i) == attempt[i] < max_retries - 1
\* for attempt in range(max_retries), thread-pool fetch
PMoreAttempts(i) == attempt[i] < max_retries

\* the sleep ends: retry_delay = min(retry_delay * 2, 60); then the next iteration
\* starts its engine call, or the loop is over: return idx, ""
PWake(i) ==
    /\ runner = "parallel"
    /\ pc[i] = "sleep"
    /\ retry_delay' = [retry_delay EXCEPT ![i] = NewDelay(@)]
    /\ IF PMoreAttempts(i)
       THEN /\ PInvoke(i)
            /\ UNCHANGED fetched
       ELSE /\ pc' = [pc EXCEPT ![i] = "done"]
            /\ fetched' = [fetched EXCEPT ![i] = <<i, "">>]
            /\ UNCHANGED <<attempt, calls>>
    /\ UNCHANGED <<fnVars, genVars, prompts, max_workers, processing_callbacks, engine, runner,
                   results, collected, semaphore, returned>>

Store_shifted(res, f) == [res EXCEPT ![(f[1] % Len(res)) + 1] = f[2]]
\* idx, result = future.result(); results[idx] = result
Store(res, f) == [res EXCEPT ![f[1]] = f[2]]

\* one iteration of the as_completed loop (all futures are submitted before it starts)
Collect(r, i) ==
    /\ runner = r
    /\ \A j \in Idx : pc[j] # "unsubmitted"
    /\ pc[i] = "done"
    /\ i \notin collected
    /\ results' = Store(results, fetched[i])
    /\ collected' = collected \cup {i}
    /\ UNCHANGED <<fnVars, genVars, prompts, max_workers, processing_callbacks, engine, runner, pc,
                   attempt, retry_delay, fetched, semaphore, calls, returned>>

PCollect(i) == Collect("parallel", i)

LoopOver_early == collected # {}
\* the as_completed loop ends when every future has been yielded
LoopOver == collected = Idx

\* return results
Return(r) ==
    /\ runner = r
    /\ LoopOver
    /\ returned' = [returned EXCEPT ![r] = [status |-> "returned", value |-> results]]
    /\ runner' = "idle"
    /\ UNCHANGED <<fnVars, genVars, prompts, max_workers, processing_callbacks, engine, pc, attempt,
                   retry_delay, fetched, results, collected, semaphore, calls>>

PReturn == Return("parallel")

(* ---------------- run_concurrent_prompts: cooperative tasks ---------------- *)
\* Semaphore._wake_up_next: the first waiter whose future is not done gets the slot
WakeUpNext(s) ==
    LET w == s.sem.waiters
        cands == {k \in 1..Len(w) : s.pc[w[k]] = "waiting"}
    IN  IF cands = {} THEN s
        ELSE [sem |-> [s.sem EXCEPT !.value = @ - 1],
              pc  |-> [s.pc EXCEPT ![w[Min(cands)]] = "granted"]]

\* Semaphore.release: self._value += 1; self._wake_up_next()
Release(s) == WakeUpNext([s EXCEPT !.sem.value = @ + 1])

\* Semaphore.locked
Locked_never(sem) == FALSE
Locked(sem) == sem.value = 0 \/ sem.waiters # <<>>

\* One pass of the try block of the cooperative fetch, run without suspension:
\* the synchronous get_response, the transforms, then either "return idx, response"
\* (leaving the async with block) or the except branch up to "await asyncio.sleep".
CTry(i, s) ==
    \E o \in Outcomes :
      /\ EngineGives(i, attempt[i] + 1, o)
      /\ attempt' = [attempt EXCEPT ![i] = @ + 1]
      /\ calls' = [calls EXCEPT !["concurrent"][i] = @ + 1]
      /\ IF o = "ok"
         THEN LET t == Release([s EXCEPT !.pc[i] = "done"])
              IN  /\ fetched' = [fetched EXCEPT ![i] = <<i, Process(Response(i, attempt[i] + 1))>>]
                  /\ pc' = t.pc
                  /\ semaphore' = t.sem
         ELSE /\ pc' = [s.pc EXCEPT ![i] = "sleep"]
              /\ semaphore' = s.sem
              /\ UNCHANGED fetched

\* a task runs for the first time: async with semaphore, then the first attempt
CStart(i) ==
    /\ runner = "concurrent"
    /\ pc[i] = "created"
    /\ IF Locked(semaphore)
       THEN /\ semaphore' = [semaphore EXCEPT !.waiters = Append(@, i)]
            /\ pc' = [pc EXCEPT ![i] = "waiting"]
            /\ UNCHANGED <<engine, attempt, calls, fetched>>
       ELSE CTry(i, [sem |-> [semaphore EXCEPT !.value = @ - 1], pc |-> pc])
    /\ UNCHANGED <<fnVars, genVars, prompts, max_workers, processing_callbacks, runner, retry_delay,
                   results, collected, returned>>

\* a woken waiter resumes inside Semaphore.acquire, then makes its first attempt
CResume(i) ==
    /\ runner = "concurrent"
    /\ pc[i] = "granted"
    /\ LET s0 == [sem |-> [semaphore EXCEPT
                              !.waiters = SelectSeq(@, LAMBDA j : j # i)],
                  pc  |-> [pc EXCEPT ![i] = "try"]]
           s1 == IF s0.sem.value > 0 THEN WakeUpNext(s0) ELSE s0
       IN  CTry(i, s1)
    /\ UNCHANGED <<fnVars, genVars, prompts, max_workers, processing_callbacks, runner, retry_delay,
                   results, collected, returned>>

CMoreAttempts_short(i) == attempt[i] < max_retries - 1
\* for attempt in range(max_retries), cooperative fetch
CMoreAttempts(i) == attempt[i] < max_retries

\* asyncio.sleep ends: retry_delay = min(retry_delay * 2, 60); next iteration or return idx, ""
CWake(i) ==
    /\ runner = "concurrent"
    /\ pc[i] = "sleep"
    /\ retry_delay' = [retry_delay EXCEPT ![i] = NewDelay(@)]
    /\ IF CMoreAttempts(i)
       THEN CTry(i, [sem |-> semaphore, pc |-> pc])
       ELSE LET t == Release([sem |-> semaphore, pc |-> [pc EXCEPT ![i] = "done"]])
            IN  /\ fetched' = [fetched EXCEPT ![i] = <<i, "">>]
                /\ pc' = t.pc
                /\ semaphore' = t.sem
                /\ UNCHANGED <<engine, attempt, calls>>
    /\ UNCHANGED <<fnVars, genVars, prompts, max_workers, processing_callbacks, runner, results,
                   collected, returned>>

\* idx, result = await future; results[idx] = result
CCollect(i) == Collect("concurrent", i)

CReturn == Return("concurrent")


(* ---------------- the tree model (mindmap.py) ---------------- *)
None == [none |-> TRUE]

\* MindMap(label, node, summary, children, keywords)
MindMap(label, node, summary, children, keywords) ==
    [label |-> label, node |-> node, summary |-> summary,
     children |-> children, keywords |-> keywords]

RECURSIVE to_rows(_, _)
\* one row per node, pre-order, with the parent's label
to_rows(t, parent_label) ==
    LET sub[k \in 0..Len(t.children)] ==
            IF k = 0 THEN <<>>
            ELSE sub[k - 1] \o to_rows(t.children[k], [label |-> t.label])
    IN  <<[Parent |-> parent_label, Label |-> t.label, Node |-> t.node,
           Summary |-> t.summary]>> \o sub[Len(t.children)]

\* to_dataframe(leaves_only): the rows whose Parent is neither None nor the root's
\* label and, with leaves_only, whose Label is no Parent among them
to_dataframe(t, leaves_only) ==
    LET rows == to_rows(t, None)
        filtered == SelectSeq(rows, LAMBDA row : row.Parent \notin {None, [label |-> t.label]})
        parents == {filtered[k].Parent : k \in 1..Len(filtered)}
    IN  [DataFrame |-> IF leaves_only
                       THEN SelectSeq(filtered, LAMBDA row : [label |-> row.Label] \notin parents)
                       ELSE filtered]

(* ---------------- Python values ---------------- *)
\* a dict as the sequence of its items, in insertion order
DictKeys(dct) == <<>> \o [k \in 1..Len(dct) |-> dct[k][1]]

DictHas(dct, key) == \E k \in 1..Len(dct) : dct[k][1] = key

\* dct[key]
DictGet(dct, key) == dct[CHOOSE k \in 1..Len(dct) : dct[k][1] = key][2]

\* dct[key] = value
DictSet(dct, key, value) ==
    IF DictHas(dct, key)
    THEN [k \in 1..Len(dct) |-> IF dct[k][1] = key THEN <<key, value>> ELSE dct[k]]
    ELSE Append(dct, <<key, value>>)

\* a value of the parsed response, tagged with its Python type; a dict is the
\* sequence of its items in insertion order; Raise is an exception in place of a value
\* the list whose items are the values of f, each computed once
List(f) == <<>> \o f

PyStr(s) == [type |-> "str", v |-> s]
PyInt(n) == [type |-> "int", v |-> n]
PyNone == [type |-> "NoneType"]
PyList(seq) == [type |-> "list", v |-> seq]
PyDict(items) == [type |-> "dict", v |-> items]
PyTuple(seq) == [type |-> "tuple", v |-> seq]
Raise(e) == [type |-> "raise", error |-> e]

\* str.lower() on the spellings of the field names
LowerMap ==
    [x \in {"label", "Label", "LABEL"} |-> "label"] @@
    [x \in {"node", "Node", "NODE"} |-> "node"] @@
    [x \in {"summary", "Summary", "SUMMARY"} |-> "summary"] @@
    [x \in {"children", "Children", "CHILDREN"} |-> "children"] @@
    [x \in {"keywords", "Keywords", "KEYWORDS"} |-> "keywords"]

lower(s) == IF s \in DOMAIN LowerMap THEN LowerMap[s] ELSE s

\* k.lower() on a dict key: only str has the method
KeyLower(k) == IF k.type = "str" THEN PyStr(lower(k.v)) ELSE Raise("AttributeError")

\* the keys of a dict, as a set
PyKeys(d) == {d.v[k][1] : k \in 1..Len(d.v)}

PyHas(d, key) == DictHas(d.v, PyStr(key))

\* d[key]
PyGet(d, key) == DictGet(d.v, PyStr(key))

RECURSIVE dict_keys_to_lowercase(_)
\* mindmap.dict_keys_to_lowercase: every key lower-cased, recursing into values
\* that are dicts (lists are left as they are)
dict_keys_to_lowercase(d) ==
    LET new_dict[k \in 0..Len(d.v)] ==
            IF k = 0 THEN PyDict(<<>>)
            ELSE LET key == KeyLower(d.v[k][1])
                     v == d.v[k][2]
                     value == IF v.type = "dict" THEN dict_keys_to_lowercase(v) ELSE v
                     before == new_dict[k - 1]
                 IN  IF before.type = "raise" THEN before
                     ELSE IF key.type = "raise" THEN key
                     ELSE IF value.type = "raise" THEN value
                     ELSE PyDict(DictSet(before.v, key, value))
    IN  new_dict[Len(d.v)]

RECURSIVE _to_dict(_)
\* MindMap._to_dict
_to_dict(t) ==
    PyDict(<< <<PyStr("label"), PyStr(t.label)>>,
              <<PyStr("node"), PyInt(t.node)>>,
              <<PyStr("summary"), PyStr(t.summary)>>,
              <<PyStr("children"),
                PyList(List([k \in 1..Len(t.children) |-> _to_dict(t.children[k])]))>>,
              <<PyStr("keywords"),
                PyList(List([k \in 1..Len(t.keywords) |-> PyStr(t.keywords[k])]))>> >>)

RECURSIVE Attr(_)
\* the value a MindMap attribute holds: str and int as themselves, a list by its items
Attr(v) ==
    IF v.type \in {"str", "int"} THEN v.v
    ELSE IF v.type = "list" THEN List([k \in 1..Len(v.v) |-> Attr(v.v[k])])
    ELSE v

FieldNames == {"label", "node", "summary", "children", "keywords"}

Keywords_dropped(d) == <<>>
\* the keywords argument of MindMap(**tree_dict), [] by default
Keywords(d) == IF PyHas(d, "keywords") THEN Attr(PyGet(d, "keywords")) ELSE <<>>

RECURSIVE from_dict(_)
\* MindMap.from_dict: lower-case the keys, MindMap(**tree_dict), then build the
\* children from tree_dict.get("children", [])
from_dict(tree_dict) ==
    IF tree_dict.type # "dict" THEN Raise("AttributeError")
    ELSE LET d == dict_keys_to_lowercase(tree_dict)
         IN  IF d.type = "raise" THEN d
             ELSE IF \E k \in PyKeys(d) : k.v \notin FieldNames THEN Raise("TypeError")
             ELSE IF ~PyHas(d, "label") \/ ~PyHas(d, "node") THEN Raise("TypeError")
             ELSE LET items == IF ~PyHas(d, "children") THEN <<>>
                               ELSE LET c == PyGet(d, "children")
                                    IN  IF c.type = "list" THEN c.v
                                        ELSE IF c.type = "dict" THEN DictKeys(c.v)
                                        ELSE IF c.type = "str"
                                        THEN IF c.v = "" THEN <<>> ELSE <<Raise("AttributeError")>>
                                        ELSE <<Raise("TypeError")>>
                      built == List([k \in 1..Len(items) |->
                                       IF items[k].type = "raise" THEN items[k]
                                       ELSE from_dict(items[k])])
                  IN  IF \E k \in 1..Len(built) : built[k].type = "raise"
                      THEN built[CHOOSE k \in 1..Len(built) :
                                   /\ built[k].type = "raise"
                                   /\ \A j \in 1..(k - 1) : built[j].type # "raise"]
                      ELSE [type |-> "MindMap",
                            tree |-> MindMap(Attr(PyGet(d, "label")),
                                             Attr(PyGet(d, "node")),
                                             IF PyHas(d, "summary")
                                             THEN Attr(PyGet(d, "summary")) ELSE "",
                                             List([k \in 1..Len(built) |-> built[k].tree]),
                                             Keywords(d))]

(* ---------------- the trees and values the operations are applied to ---------------- *)
RECURSIVE Forests(_, _)
\* the sequences of trees with m nodes in all, every node drawn from the set Variants;
\* a tree is <<variant, forest>>
Forests(m, Variants) ==
    IF m = 0 THEN {<<>>}
    ELSE UNION {{<< <<v, f>> >> \o rest :
                    v \in Variants, f \in Forests(k - 1, Variants),
                    rest \in Forests(m - k, Variants)} : k \in 1..m}

\* the trees of at most n nodes
Shapes(n, Variants) ==
    UNION {{<<v, f>> : v \in Variants, f \in Forests(m - 1, Variants)} : m \in 1..n}

\* label, node id, summary and keywords of the nodes of the MindMap objects
NodeVariants ==
    {[label |-> "A", node |-> 1, summary |-> "s", keywords |-> <<>>],
     [label |-> "B", node |-> 2, summary |-> "", keywords |-> <<"k1", "k2">>],
     [label |-> "A", node |-> 3, summary |-> "t", keywords |-> <<"k1">>],
     [label |-> "C", node |-> 4, summary |-> "u", keywords |-> <<>>],
     [label |-> "", node |-> 5, summary |-> "e", keywords |-> <<>>]}

RECURSIVE TreeFrom(_)
\* the MindMap object of a shape
TreeFrom(shape) ==
    MindMap(shape[1].label, shape[1].node, shape[1].summary,
            List([k \in 1..Len(shape[2]) |-> TreeFrom(shape[2][k])]), shape[1].keywords)

\* the MindMap objects of at most n nodes
MindMaps(n) == {TreeFrom(s) : s \in Shapes(n, NodeVariants)}

(* ---------------- texts (json, re) ---------------- *)
\* a text is the sequence of its characters; a string literal, a number and the word
\* null are each held as one element
Quote(s) == "\"" \o s \o "\""

\* the strings and numbers that occur in the texts
Strings ==
    DOMAIN LowerMap \cup {v.label : v \in NodeVariants} \cup {v.summary : v \in NodeVariants}
    \cup UNION {{v.keywords[k] : k \in 1..Len(v.keywords)} : v \in NodeVariants}
    \cup {"x"}

Ints == {v.node : v \in NodeVariants}

StrTokens == {Quote(s) : s \in Strings}

NumTokens == {ToString(n) : n \in Ints}

Unquote(c) == CHOOSE s \in Strings : Quote(s) = c

IntOf(c) == CHOOSE n \in Ints : ToString(n) = c

Letters == {"j", "s", "o", "n", "null"}

IsSpace(c) == c \in {" ", "\n"}

IsAlpha(c) == c \in Letters

Indent(n) == <<>> \o [k \in 1..n |-> " "]

RECURSIVE json_dumps(_, _)
\* json.dumps(obj, indent=2), obj nested level deep
json_dumps(obj, level) ==
    LET Newline(l) == <<"\n">> \o Indent(2 * l)
        Item(k) == IF obj.type = "dict"
                   THEN json_dumps(obj.v[k][1], level + 1) \o <<":", " ">>
                        \o json_dumps(obj.v[k][2], level + 1)
                   ELSE json_dumps(obj.v[k], level + 1)
        items[k \in 0..Len(obj.v)] ==
            IF k = 0 THEN <<>>
            ELSE items[k - 1] \o (IF k > 1 THEN <<",">> ELSE <<>>)
                 \o Newline(level + 1) \o Item(k)
        open == IF obj.type = "dict" THEN "{" ELSE "["
        close == IF obj.type = "dict" THEN "}" ELSE "]"
    IN  IF obj.type = "str" THEN <<Quote(obj.v)>>
        ELSE IF obj.type = "int" THEN <<ToString(obj.v)>>
        ELSE IF obj.type = "NoneType" THEN <<"null">>
        ELSE IF obj.v = <<>> THEN <<open, close>>
        ELSE <<open>> \o items[Len(obj.v)] \o Newline(level) \o <<close>>

RECURSIVE Join(_, _, _)
\* the characters a..b of a text, as one string
Join(text, a, b) ==
    IF a > b THEN ""
    ELSE IF a = b THEN text[a]
    ELSE Join(text, a, (a + b) \div 2) \o Join(text, (a + b) \div 2 + 1, b)

\* the characters of a text, as one string
Text(text) == Join(text, 1, Len(text))

\* MindMap.to_json: json.dumps(self._to_dict(), indent=2), character by character
to_json_text(t) == json_dumps(_to_dict(t), 0)


\* the first position from i on that holds no white space (Len + 1 when there is none)
SkipSpace(text, i) ==
    CHOOSE p \in i..(Len(text) + 1) :
        /\ p = Len(text) + 1 \/ ~IsSpace(text[p])
        /\ \A q \in i..(p - 1) : IsSpace(text[q])

NoParse == [ok |-> FALSE]

Parsed(v, pos) == [ok |-> TRUE, v |-> v, pos |-> pos]

RECURSIVE Value(_, _, _)
RECURSIVE Elements(_, _, _, _, _)
RECURSIVE Members(_, _, _, _, _)
RECURSIVE Group(_, _, _, _)
\* the value that starts at position i
Value(text, i, mode) ==
    LET p == SkipSpace(text, i)
    IN  IF p > Len(text) THEN NoParse
        ELSE IF text[p] = "{" THEN Members(text, p + 1, mode, <<>>, FALSE)
        ELSE IF text[p] = "[" THEN Elements(text, p + 1, mode, <<>>, FALSE)
        ELSE IF text[p] \in StrTokens THEN Parsed(PyStr(Unquote(text[p])), p + 1)
        ELSE IF text[p] \in NumTokens THEN Parsed(PyInt(IntOf(text[p])), p + 1)
        ELSE IF text[p] = "null" /\ mode = "json" THEN Parsed(PyNone, p + 1)
        ELSE IF text[p] = "(" /\ mode = "python" THEN Group(text, p + 1, <<>>, FALSE)
        ELSE NoParse

\* the rest of a Python literal in parentheses: one value without a comma is that
\* value, anything else a tuple
Group(text, i, acc, after_comma) ==
    LET p == SkipSpace(text, i)
    IN  IF p > Len(text) THEN NoParse
        ELSE IF text[p] = ")"
        THEN IF acc = <<>> \/ after_comma THEN Parsed(PyTuple(acc), p + 1) ELSE NoParse
        ELSE LET r == Value(text, p, "python")
                 q == SkipSpace(text, r.pos)
             IN  IF ~r.ok THEN NoParse
                 ELSE IF q > Len(text) THEN NoParse
                 ELSE IF text[q] = "," THEN Group(text, q + 1, Append(acc, r.v), TRUE)
                 ELSE IF text[q] = ")"
                 THEN IF acc = <<>> THEN Parsed(r.v, q + 1)
                      ELSE Parsed(PyTuple(Append(acc, r.v)), q + 1)
                 ELSE NoParse

\* the rest of a list after "[" or after a comma; only a Python literal may close
\* after a comma
Elements(text, i, mode, acc, after_comma) ==
    LET p == SkipSpace(text, i)
    IN  IF p > Len(text) THEN NoParse
        ELSE IF text[p] = "]"
        THEN IF ~after_comma \/ mode = "python" THEN Parsed(PyList(acc), p + 1) ELSE NoParse
        ELSE LET r == Value(text, p, mode)
                 q == SkipSpace(text, r.pos)
             IN  IF ~r.ok THEN NoParse
                 ELSE IF q > Len(text) THEN NoParse
                 ELSE IF text[q] = "," THEN Elements(text, q + 1, mode, Append(acc, r.v), TRUE)
                 ELSE IF text[q] = "]" THEN Parsed(PyList(Append(acc, r.v)), q + 1)
                 ELSE NoParse

\* the rest of a dict after "{" or after a comma; a JSON key is a string, a Python
\* key any hashable literal
Members(text, i, mode, acc, after_comma) ==
    LET p == SkipSpace(text, i)
    IN  IF p > Len(text) THEN NoParse
        ELSE IF text[p] = "}"
        THEN IF ~after_comma \/ mode = "python" THEN Parsed(PyDict(acc), p + 1) ELSE NoParse
        ELSE LET key == Value(text, p, mode)
                 c == SkipSpace(text, key.pos)
                 r == Value(text, c + 1, mode)
                 q == SkipSpace(text, r.pos)
             IN  IF ~key.ok THEN NoParse
                 ELSE IF key.v.type \in {"list", "dict"} THEN NoParse
                 ELSE IF mode = "json" /\ key.v.type # "str" THEN NoParse
                 ELSE IF c > Len(text) THEN NoParse
                 ELSE IF text[c] # ":" THEN NoParse
                 ELSE IF ~r.ok THEN NoParse
                 ELSE IF q > Len(text) THEN NoParse
                 ELSE IF text[q] = ","
                 THEN Members(text, q + 1, mode, DictSet(acc, key.v, r.v), TRUE)
                 ELSE IF text[q] = "}" THEN Parsed(PyDict(DictSet(acc, key.v, r.v)), q + 1)
                 ELSE NoParse

\* one value and nothing but white space after it
Document(text, mode) ==
    LET r == Value(text, 1, mode)
    IN  IF r.ok /\ SkipSpace(text, r.pos) > Len(text) THEN r ELSE NoParse

\* json.loads(text)
json_loads(text) == Document(text, "json")

\* ast.literal_eval(text)
literal_eval(text) == Document(text, "python")

(* ---------------- _parse_llm_to_themetree, step by step ---------------- *)
Drop(text, n) == SubSeq(text, n + 1, Len(text))

\* the character classes of the patterns: [a-zA-Z], \s and [^({\[]
InClass(c, class) ==
    IF class = "[a-zA-Z]" THEN IsAlpha(c)
    ELSE IF class = "\\s" THEN IsSpace(c)
    ELSE c \notin {"(", "{", "["}

\* the number of characters from position i on that are all in the class, as a
\* greedy repetition of the class matches them
Run(text, i, class) ==
    (CHOOSE p \in i..(Len(text) + 1) :
        /\ p = Len(text) + 1 \/ ~InClass(text[p], class)
        /\ \A q \in i..(p - 1) : InClass(text[q], class)) - i

\* the backquote character
Backtick == "<backquote>"

\* three backquotes at position i
FenceAt(text, i) ==
    /\ i >= 1
    /\ i + 2 <= Len(text)
    /\ text[i] = Backtick /\ text[i + 1] = Backtick /\ text[i + 2] = Backtick

\* the payload between an opening fence line with the language tag and a closing fence line
Fenced(tag, payload) ==
    <<Backtick, Backtick, Backtick>> \o tag \o <<"\n">> \o payload \o <<"\n">>
    \o <<Backtick, Backtick, Backtick>>

\* mindmap_text.strip()
strip(text) ==
    LET a == SkipSpace(text, 1)
        b == IF a > Len(text) THEN 0
             ELSE CHOOSE p \in a..Len(text) :
                    ~IsSpace(text[p]) /\ \A q \in (p + 1)..Len(text) : IsSpace(text[q])
    IN  SubSeq(text, a, b)

\* line 105, re.sub: three backquotes at the start, [a-zA-Z]*, \s*
SubOpeningFence(text) ==
    IF FenceAt(text, 1)
    THEN LET a == 3 + Run(text, 4, "[a-zA-Z]")
         IN  Drop(text, a + Run(text, a + 1, "\\s"))
    ELSE text

\* line 106, re.sub: three backquotes before $, and $ matches at the end and before a newline that ends the text
SubClosingFence(text) ==
    LET n == Len(text)
    IN  IF FenceAt(text, n - 2) THEN SubSeq(text, 1, n - 3)
        ELSE IF n >= 4 /\ text[n] = "\n" /\ FenceAt(text, n - 3)
        THEN SubSeq(text, 1, n - 4) \o <<"\n">>
        ELSE text

\* re.sub(r"^[a-zA-Z]+\s*\n*{", "{", text)
SubLanguageTag(text) ==
    LET a == Run(text, 1, "[a-zA-Z]")
        b == a + Run(text, a + 1, "\\s")
    IN  IF a >= 1 /\ b + 1 <= Len(text) /\ text[b + 1] = "{" THEN Drop(text, b) ELSE text

\* re.sub(r"^[^({\[]*({|\[)", r"\1", text, flags=re.DOTALL)
SubLeadingText(text) ==
    LET a == Run(text, 1, "[^({\\[]")
    IN  IF a + 1 <= Len(text) /\ text[a + 1] \in {"{", "["} THEN Drop(text, a) ELSE text

\* lines 103-108: the text handed to json.loads
Normalize(mindmap_text) ==
    SubLeadingText(SubLanguageTag(SubClosingFence(SubOpeningFence(strip(mindmap_text)))))

allowed_keys == {"label", "node", "summary", "children"}

\* f"{path} -> children[{idx}]", idx counted from 0
ChildPath(path, idx) == path \o " -> children[" \o ToString(idx) \o "]"

Valid == [ok |-> TRUE]

\* raise ValueError(f"... at {path} ..."); the message names one of the keys
Invalid(rule, path, keys) == [ok |-> FALSE, rule |-> rule, path |-> path, keys |-> keys]

ChildIndex_from_one(k) == k
\* enumerate(node["children"]) counts from 0
ChildIndex(k) == k - 1

RequiredKeys_nullable(node) == {key \in allowed_keys : ~PyHas(node, key)}
\* the keys that are missing or null
RequiredKeys(node) ==
    {key \in allowed_keys : ~PyHas(node, key) \/ PyGet(node, key).type = "NoneType"}

RECURSIVE validate_node(_, _)
\* validate_node(node, path): the first failing check, children in order
validate_node(node, path) ==
    IF node.type # "dict" THEN Invalid("not a dict", path, {})
    ELSE LET illegal_keys == {k \in PyKeys(node) : k.type # "str" \/ k.v \notin allowed_keys}
             missing == RequiredKeys(node)
         IN  IF illegal_keys # {} THEN Invalid("illegal key", path, illegal_keys)
             ELSE IF missing # {} THEN Invalid("missing or null", path, missing)
             ELSE IF PyGet(node, "children").type # "list"
             THEN Invalid("children not a list", path, {})
             ELSE LET children == PyGet(node, "children").v
                      sub == List([k \in 1..Len(children) |->
                                     validate_node(children[k],
                                                   ChildPath(path, ChildIndex(k)))])
                  IN  IF \A k \in 1..Len(children) : sub[k].ok THEN Valid
                      ELSE sub[CHOOSE k \in 1..Len(children) :
                                 ~sub[k].ok /\ \A j \in 1..(k - 1) : sub[j].ok]

RECURSIVE lowercase_walk(_)
ListItem_kept(i) == i
\* dict_keys_to_lowercase(i) for i in d
ListItem(i) == lowercase_walk(i)

\* the dict_keys_to_lowercase local to _parse_llm_to_themetree: dicts and lists are walked
lowercase_walk(d) ==
    IF d.type = "dict"
    THEN LET new_dict[k \in 0..Len(d.v)] ==
                 IF k = 0 THEN PyDict(<<>>)
                 ELSE LET key == KeyLower(d.v[k][1])
                          value == lowercase_walk(d.v[k][2])
                          before == new_dict[k - 1]
                      IN  IF before.type = "raise" THEN before
                          ELSE IF key.type = "raise" THEN key
                          ELSE IF value.type = "raise" THEN value
                          ELSE PyDict(DictSet(before.v, key, value))
         IN  new_dict[Len(d.v)]
    ELSE IF d.type = "list"
    THEN LET items == List([k \in 1..Len(d.v) |-> ListItem(d.v[k])])
         IN  IF \E k \in 1..Len(items) : items[k].type = "raise"
             THEN Raise("AttributeError")
             ELSE PyList(items)
    ELSE d

ValueError(stage, detail) ==
    [type |-> "raise", error |-> "ValueError", stage |-> stage, detail |-> detail]

\* lines 157-175: lower-case the keys, validate, build
TreeFromParsed(parsed) ==
    LET tree_dict == lowercase_walk(parsed)
        checked == validate_node(tree_dict, "root")
        theme_tree == from_dict(tree_dict)
    IN  IF tree_dict.type = "raise" THEN tree_dict
        ELSE IF ~checked.ok THEN ValueError("validate", checked)
        ELSE IF theme_tree.type = "raise" THEN ValueError("build", theme_tree)
        ELSE theme_tree

\* _parse_llm_to_themetree on the characters of the response
parse_llm_to_themetree(mindmap_text) ==
    LET text == Normalize(mindmap_text)
        as_json == json_loads(text)
        as_python == literal_eval(text)
    IN  IF as_json.ok THEN TreeFromParsed(as_json.v)
        ELSE IF as_python.ok THEN TreeFromParsed(as_python.v)
        ELSE ValueError("parse", Valid)

(* ---------------- the request engine of the orchestrator ---------------- *)
\* texts the engine may return, by the stage of the pipeline at which they fail
Texts == {"leaf_tree", "deep_tree", "not_json", "bad_schema", "bad_value", "unserializable"}

\* the engine raises, or returns one of the texts
Replies == {[raises |-> TRUE, text |-> ""]} \cup {[raises |-> FALSE, text |-> x] : x \in Texts}

TreeOf(text) ==
    IF text = "deep_tree"
    THEN MindMap("Root", 1, "s",
                 <<MindMap("Branch", 2, "b", <<MindMap("Leaf", 3, "l", <<>>, <<>>)>>, <<>>)>>,
                 <<>>)
    ELSE MindMap("Root", 1, "s", <<>>, <<>>)

\* _parse_llm_to_themetree: the tree, or the ValueError of the stage that failed
\* (json.loads and ast.literal_eval, validate_node, MindMap.from_dict)
_parse_llm_to_themetree(text) ==
    CASE text = "not_json"   -> [raised |-> TRUE, error |-> "Failed to parse LLM output"]
      [] text = "bad_schema" -> [raised |-> TRUE, error |-> "Mind map structure validation failed"]
      [] text = "bad_value"  -> [raised |-> TRUE, error |-> "Failed to build MindMap from dict"]
      [] OTHER               -> [raised |-> FALSE, tree |-> TreeOf(text)]

\* the JSON texts of the trees the engine's replies hold
JsonTexts == [t \in {TreeOf(x) : x \in Texts} |-> Text(to_json_text(t))]

\* MindMap.to_json
to_json(t) == IF t \in DOMAIN JsonTexts THEN JsonTexts[t] ELSE Text(to_json_text(t))

\* theme_tree.to_json() raises TypeError on a tree holding a value json cannot encode
JsonRaises(text) == text = "unserializable"

(* ---------------- the result files (mindmap_utils.py) ---------------- *)
\* generate_or_load_refined: f"{filename}_{i}.json"
ResultFile(i) == "refined_mindmap_" \o ToString(i) \o ".json"

Indices == 0..MaxIndex

\* the files of ./refined_mindmaps: generate_refined's default and the indexed ones
RefinedFiles == {"refined_mindmap.json"} \cup {ResultFile(i) : i \in Indices}

\* the interval names of generate_dynamic, whose files are f"{month_name}.json"
MonthNames == <<"Jan", "Feb", "Mar", "Apr">>

MonthFile(month_name) == month_name \o ".json"

DynamicFiles == {MonthFile(MonthNames[k]) : k \in 1..MaxIntervals}

Files == RefinedFiles \cup DynamicFiles
Absent == [absent |-> TRUE]

\* json.dump(results, f, default=str, indent=2): a DataFrame is written as its str()
Persisted(bundle) ==
    [k \in DOMAIN bundle |->
        IF k = "mindmap_df" /\ bundle[k] # None THEN [str |-> bundle[k]] ELSE bundle[k]]

\* save_results_to_file: create or overwrite output_dir/filename
save_results_to_file(d, result_dict, filename) ==
    [d EXCEPT ![filename] = Persisted(result_dict)]

(* ---------------- the orchestrator (mindmap_generator.py) ---------------- *)
NoCall == [op |-> "none"]

DynIdle == [pc |-> "idle"]

NoInput == [op |-> "none"]

InitOrchestrator ==
    /\ disk = [f \in Files |-> Absent]
    /\ llm_calls = 0
    /\ ncalls = 0
    /\ last = NoCall
    /\ dyn = DynIdle

\* no pure operation has been applied
InitNoInput ==
    /\ input = NoInput
    /\ output = NoInput

OneShotOutcome_swallow(reply) ==
    IF reply.raises \/ _parse_llm_to_themetree(reply.text).raised \/ JsonRaises(reply.text)
    THEN [raised |-> FALSE, tree |-> None, bundle |-> [mindmap_text |-> reply.text, mindmap_json |-> ""]]
    ELSE [raised |-> FALSE, tree |-> TreeOf(reply.text), bundle |-> None]
\* generate_one_shot after get_response: parse, to_dataframe, to_json, no handler
OneShotOutcome(reply) ==
    IF reply.raises
    THEN [raised |-> TRUE, tree |-> None, bundle |-> None]
    ELSE LET parsed == _parse_llm_to_themetree(reply.text)
         IN  IF parsed.raised \/ JsonRaises(reply.text)
             THEN [raised |-> TRUE, tree |-> None, bundle |-> None]
             ELSE [raised |-> FALSE, tree |-> parsed.tree,
                   bundle |-> [mindmap_text |-> reply.text,
                               mindmap_tree |-> parsed.tree,
                               mindmap_json |-> to_json(parsed.tree),
                               mindmap_df   |-> to_dataframe(parsed.tree, FALSE),
                               grounded     |-> FALSE]]

generate_one_shot(reply) ==
    /\ ncalls < MaxCalls
    /\ LET out == OneShotOutcome(reply)
       IN  last' = [op |-> "generate_one_shot", reply |-> reply, raised |-> out.raised,
                    tree |-> out.tree, bundle |-> out.bundle, engine_calls |-> 1,
                    writes |-> 0]
    /\ llm_calls' = llm_calls + 1
    /\ ncalls' = ncalls + 1
    /\ UNCHANGED disk
    /\ UNCHANGED <<batchVars, fnVars, dyn>>

RefinedFailure_unsaved(d, filename, text, e) ==
    [raised |-> FALSE, tree |-> None, disk |-> d, writes |-> 0,
     bundle |-> [mindmap_text |-> text, mindmap_df |-> None, mindmap_json |-> "", error |-> e]]
\* the except branch of generate_refined: error bundle, saved, (None, result_dict)
RefinedFailure(d, filename, text, e) ==
    LET result_dict == [mindmap_text |-> text, mindmap_df |-> None,
                        mindmap_json |-> "", error |-> e]
    IN  [raised |-> FALSE, tree |-> None, bundle |-> result_dict,
         disk |-> save_results_to_file(d, result_dict, filename), writes |-> 1]

RefinedOutcome_stops(d, filename, reply) ==
    IF reply.raises \/ _parse_llm_to_themetree(reply.text).raised
    THEN [raised |-> TRUE, tree |-> None, bundle |-> None, disk |-> d, writes |-> 0]
    ELSE IF JsonRaises(reply.text)
    THEN RefinedFailure(d, filename, reply.text, "not JSON serializable")
    ELSE LET parsed == _parse_llm_to_themetree(reply.text)
             result_dict == [mindmap_text |-> reply.text,
                             mindmap_df   |-> to_dataframe(parsed.tree, FALSE),
                             mindmap_json |-> to_json(parsed.tree)]
         IN  [raised |-> FALSE, tree |-> parsed.tree, bundle |-> result_dict,
              disk |-> save_results_to_file(d, result_dict, filename),
              writes |-> 1]
\* generate_refined from get_response on: the call is outside the try block
RefinedOutcome(d, filename, reply) ==
    IF reply.raises
    THEN [raised |-> TRUE, tree |-> None, bundle |-> None, disk |-> d, writes |-> 0]
    ELSE LET parsed == _parse_llm_to_themetree(reply.text)
         IN  IF parsed.raised
             THEN RefinedFailure(d, filename, reply.text, parsed.error)
             ELSE IF JsonRaises(reply.text)
             THEN RefinedFailure(d, filename, reply.text, "not JSON serializable")
             ELSE LET result_dict == [mindmap_text |-> reply.text,
                                      mindmap_df   |-> to_dataframe(parsed.tree, FALSE),
                                      mindmap_json |-> to_json(parsed.tree)]
                  IN  [raised |-> FALSE, tree |-> parsed.tree, bundle |-> result_dict,
                       disk |-> save_results_to_file(d, result_dict, filename),
                       writes |-> 1]

generate_refined(filename, reply) ==
    /\ ncalls < MaxCalls
    /\ LET out == RefinedOutcome(disk, filename, reply)
       IN  /\ last' = [op |-> "generate_refined", reply |-> reply, raised |-> out.raised,
                       tree |-> out.tree, bundle |-> out.bundle, engine_calls |-> 1,
                       writes |-> out.writes, filename |-> filename,
                       before |-> disk[filename]]
           /\ disk' = out.disk
    /\ llm_calls' = llm_calls + 1
    /\ ncalls' = ncalls + 1
    /\ UNCHANGED <<batchVars, fnVars, dyn>>


CacheHit_never(d, filepath) == FALSE
\* os.path.exists(filepath)
CacheHit(d, filepath) == d[filepath] # Absent

\* the except branch of generate_or_load_refined: an error bundle that is not saved
OrLoadFailure(e) ==
    [mindmap_text |-> "", mindmap_df |-> None, mindmap_json |-> "", error |-> e]

\* generate_or_load_refined: load the file if it exists, else generate_refined
generate_or_load_refined(i) ==
    /\ ncalls < MaxCalls
    /\ ncalls' = ncalls + 1
    /\ LET filepath == ResultFile(i)
       IN  IF CacheHit(disk, filepath)
           THEN /\ last' = [op |-> "generate_or_load_refined", i |-> i, filename |-> filepath,
                            raised |-> FALSE, result |-> disk[filepath],
                            before |-> disk[filepath]]
                /\ UNCHANGED <<disk, llm_calls>>
           ELSE \E reply \in Replies :
                  LET out == RefinedOutcome(disk, filepath, reply)
                  IN  /\ last' = [op |-> "generate_or_load_refined", i |-> i,
                                  filename |-> filepath, raised |-> FALSE, reply |-> reply,
                                  result |-> IF out.raised
                                             THEN OrLoadFailure("engine failure")
                                             ELSE out.bundle,
                                  before |-> disk[filepath]]
                      /\ disk' = out.disk
                      /\ llm_calls' = llm_calls + 1
    /\ UNCHANGED <<batchVars, fnVars, dyn>>

\* no batch call is in progress
InitNoBatch ==
    /\ prompts = <<>>
    /\ max_workers = 1
    /\ processing_callbacks = FALSE
    /\ engine = <<>>
    /\ runner = "idle"
    /\ pc = <<>>
    /\ attempt = <<>>
    /\ retry_delay = <<>>
    /\ fetched = <<>>
    /\ results = <<>>
    /\ collected = {}
    /\ semaphore = [value |-> 0, waiters |-> <<>>]
    /\ calls = [r \in Runners |-> <<>>]
    /\ returned = [r \in Runners |-> NotCalled]

InitGen ==
    /\ InitOrchestrator
    /\ InitNoInput
    /\ InitNoBatch

NextGen ==
    \/ \E reply \in Replies : generate_one_shot(reply)
    \/ \E filename \in RefinedFiles : \E reply \in Replies : generate_refined(filename, reply)
    \/ \E i \in Indices : generate_or_load_refined(i)

SpecGen == InitGen /\ [][NextGen]_vars


(* ---------------- generate_dynamic ---------------- *)
\* the initial_mindmap argument: not supplied (None) or a string
InitialMindmaps ==
    {[given |-> FALSE, text |-> ""], [given |-> TRUE, text |-> ""],
     [given |-> TRUE, text |-> to_json(TreeOf("leaf_tree"))]}

\* results = {}; mind_map_objs = {}; if initial_mindmap is None: ... else: prev_mindmap = initial_mindmap
DynStart(initial_mindmap, n) ==
    /\ dyn.pc = "idle"
    /\ ncalls < MaxDynamicCalls
    /\ ncalls' = ncalls + 1
    /\ dyn' = [pc |-> IF initial_mindmap.given THEN "refine" ELSE "one_shot",
               initial_mindmap |-> initial_mindmap,
               month_names |-> SubSeq(MonthNames, 1, n),
               k |-> 0,
               prev_mindmap |-> initial_mindmap.text,
               results |-> <<>>,
               mind_map_objs |-> <<>>,
               sent |-> <<>>,
               replies |-> <<>>,
               one_shots |-> 0]
    /\ UNCHANGED <<disk, llm_calls, last>>
    /\ UNCHANGED <<batchVars, fnVars>>

\* what generate_dynamic hands back, or the exception that ends it
DynOutcome(raised) ==
    [op |-> "generate_dynamic", raised |-> raised,
     initial_mindmap |-> dyn.initial_mindmap, month_names |-> dyn.month_names,
     k |-> dyn.k, results |-> dyn.results, mind_map_objs |-> dyn.mind_map_objs,
     sent |-> dyn.sent, replies |-> dyn.replies, one_shots |-> dyn.one_shots]

\* one_shot_map, one_shot_dict = self.generate_one_shot(...)
DynOneShot(reply) ==
    /\ dyn.pc = "one_shot"
    /\ llm_calls' = llm_calls + 1
    /\ LET out == OneShotOutcome(reply)
       IN  IF out.raised
           THEN /\ last' = [DynOutcome(TRUE) EXCEPT !.one_shots = @ + 1]
                /\ dyn' = DynIdle
           ELSE /\ dyn' = [dyn EXCEPT
                             !.pc = "refine",
                             !.prev_mindmap = out.bundle.mindmap_json,
                             !.mind_map_objs = DictSet(@, "base_mindmap", out.tree),
                             !.results = DictSet(@, "base_mindmap", out.bundle),
                             !.one_shots = @ + 1]
                /\ UNCHANGED last
    /\ UNCHANGED <<disk, ncalls>>
    /\ UNCHANGED <<batchVars, fnVars>>

NextPrev_stale(prev_mindmap, refined) == prev_mindmap
\* prev_mindmap = refined["mindmap_json"]
NextPrev(prev_mindmap, refined) == refined.mindmap_json

\* one iteration of the loop over zip(month_intervals, month_names)
DynRefine(reply) ==
    /\ dyn.pc = "refine"
    /\ dyn.k < Len(dyn.month_names)
    /\ llm_calls' = llm_calls + 1
    /\ LET month_name == dyn.month_names[dyn.k + 1]
           out == RefinedOutcome(disk, MonthFile(month_name), reply)
       IN  IF out.raised
           THEN /\ last' = [DynOutcome(TRUE) EXCEPT !.sent = Append(@, dyn.prev_mindmap),
                                                    !.replies = Append(@, reply)]
                /\ dyn' = DynIdle
                /\ UNCHANGED disk
           ELSE /\ dyn' = [dyn EXCEPT
                             !.k = @ + 1,
                             !.sent = Append(@, dyn.prev_mindmap),
                             !.replies = Append(@, reply),
                             !.results = DictSet(@, month_name, out.bundle),
                             !.mind_map_objs = DictSet(@, month_name, out.tree),
                             !.prev_mindmap = NextPrev(dyn.prev_mindmap, out.bundle)]
                /\ disk' = out.disk
                /\ UNCHANGED last
    /\ UNCHANGED ncalls
    /\ UNCHANGED <<batchVars, fnVars>>

\* return mind_map_objs, results
DynReturn ==
    /\ dyn.pc = "refine"
    /\ dyn.k = Len(dyn.month_names)
    /\ last' = DynOutcome(FALSE)
    /\ dyn' = DynIdle
    /\ UNCHANGED <<disk, llm_calls, ncalls>>
    /\ UNCHANGED <<batchVars, fnVars>>

NextDyn ==
    \/ \E initial_mindmap \in InitialMindmaps : \E n \in 0..MaxIntervals :
         DynStart(initial_mindmap, n)
    \/ \E reply \in Replies : DynOneShot(reply)
    \/ \E reply \in Replies : DynRefine(reply)
    \/ DynReturn

SpecDyn == InitGen /\ [][NextDyn]_vars

(* ---------------- the tree operations, applied to one input ---------------- *)
TreeInputs(n) == {[kind |-> "tree", tree |-> t] : t \in MindMaps(n)}

\* MindMap.from_dict(tree._to_dict())
RoundTrip ==
    /\ input.kind = "tree"
    /\ output = NoInput
    /\ output' = [op |-> "from_dict", result |-> from_dict(_to_dict(input.tree))]
    /\ UNCHANGED <<batchVars, genVars, input>>

\* the spellings of the field names in a parsed response
Spelling ==
    [lower |-> [label |-> "label", node |-> "node", summary |-> "summary",
                children |-> "children", keywords |-> "keywords"],
     Title |-> [label |-> "Label", node |-> "Node", summary |-> "Summary",
                children |-> "Children", keywords |-> "Keywords"],
     UPPER |-> [label |-> "LABEL", node |-> "NODE", summary |-> "SUMMARY",
                children |-> "CHILDREN", keywords |-> "KEYWORDS"],
     mixed |-> [label |-> "Label", node |-> "NODE", summary |-> "Summary",
                children |-> "Children", keywords |-> "keywords"]]

\* the nodes of the parsed responses: complete, or with one departure from the schema,
\* their keys in one of the spellings
ValueVariants ==
    {[form |-> "complete", style |-> "lower", label |-> "A", node |-> 1],
     [form |-> "complete", style |-> "mixed", label |-> "B", node |-> 2],
     [form |-> "complete", style |-> "UPPER", label |-> "C", node |-> 3],
     [form |-> "no node", style |-> "lower", label |-> "A", node |-> 1],
     [form |-> "no node", style |-> "Title", label |-> "B", node |-> 2],
     [form |-> "null summary", style |-> "lower", label |-> "A", node |-> 1],
     [form |-> "keywords", style |-> "Title", label |-> "B", node |-> 2],
     [form |-> "children not a list", style |-> "lower", label |-> "A", node |-> 1],
     [form |-> "not a dict", style |-> "lower", label |-> "A", node |-> 1]}

RECURSIVE ValueFrom(_, _)
\* the parsed response of a shape, its keys spelt as the nodes say or all in lower case
ValueFrom(shape, lowered) ==
    LET n == shape[1]
        key == Spelling[IF lowered THEN "lower" ELSE n.style]
        children == PyList(List([k \in 1..Len(shape[2]) |-> ValueFrom(shape[2][k], lowered)]))
    IN  IF n.form = "not a dict" THEN PyStr(n.label)
        ELSE PyDict(
               << <<PyStr(key.label), PyStr(n.label)>> >>
               \o (IF n.form = "no node" THEN <<>> ELSE << <<PyStr(key.node), PyInt(n.node)>> >>)
               \o << <<PyStr(key.summary),
                       IF n.form = "null summary" THEN PyNone ELSE PyStr("s")>> >>
               \o << <<PyStr(key.children),
                       IF n.form = "children not a list" THEN PyStr("x") ELSE children>> >>
               \o (IF n.form = "keywords" THEN << <<PyStr(key.keywords), PyList(<<>>)>> >>
                   ELSE <<>>))

ValueInputs(n) == {[kind |-> "value", shape |-> s] : s \in Shapes(n, ValueVariants)}

\* lines 157-175 on a parsed response
BuildFromParsed ==
    /\ input.kind = "value"
    /\ output = NoInput
    /\ output' = [op |-> "build", result |-> TreeFromParsed(ValueFrom(input.shape, FALSE))]
    /\ UNCHANGED <<batchVars, genVars, input>>

\* validate_node(tree_dict) on a parsed response after dict_keys_to_lowercase
Validate ==
    /\ input.kind = "value"
    /\ output = NoInput
    /\ LET tree_dict == lowercase_walk(ValueFrom(input.shape, FALSE))
       IN  output' = [op |-> "validate", tree_dict |-> tree_dict,
                      result |-> validate_node(tree_dict, "root")]
    /\ UNCHANGED <<batchVars, genVars, input>>

RECURSIVE DictUpdate(_, _)
\* dct.update(other)
DictUpdate(dct, other) ==
    IF other = <<>> THEN dct
    ELSE DictUpdate(DictSet(dct, other[1][1], other[1][2]), Tail(other))

IsTerminal_any(t) == TRUE
\* not self.children
IsTerminal(t) == t.children = <<>>

RECURSIVE get_terminal_label_summaries(_)
\* MindMap.get_terminal_label_summaries: a dict from label to summary
get_terminal_label_summaries(t) ==
    LET label_summary[k \in 0..Len(t.children)] ==
            IF k = 0 THEN IF IsTerminal(t) THEN << <<t.label, t.summary>> >> ELSE <<>>
            ELSE DictUpdate(label_summary[k - 1], get_terminal_label_summaries(t.children[k]))
    IN  label_summary[Len(t.children)]

\* MindMap.get_terminal_labels
get_terminal_labels(t) == DictKeys(get_terminal_label_summaries(t))

\* tree.get_terminal_labels()
TerminalLabels ==
    /\ input.kind = "tree"
    /\ output = NoInput
    /\ output' = [op |-> "get_terminal_labels", result |-> get_terminal_labels(input.tree)]
    /\ UNCHANGED <<batchVars, genVars, input>>

\* the truth value of parent_label: None and the empty string are false
Truthy(parent_label) == parent_label # None /\ parent_label.label # ""

RECURSIVE traverse(_, _, _)
\* traverse(node, parent_label) of get_label_to_parent_mapping, on the mapping so far
traverse(node, parent_label, mapping) ==
    LET after[k \in 0..Len(node.children)] ==
            IF k = 0
            THEN IF Truthy(parent_label) /\ node.children = <<>>
                 THEN DictSet(mapping, node.label, parent_label.label)
                 ELSE mapping
            ELSE traverse(node.children[k], [label |-> node.label], after[k - 1])
    IN  after[Len(node.children)]

\* MindMap.get_label_to_parent_mapping
get_label_to_parent_mapping(t) == traverse(t, None, <<>>)

\* tree.get_label_to_parent_mapping()
LabelToParent ==
    /\ input.kind = "tree"
    /\ output = NoInput
    /\ output' = [op |-> "get_label_to_parent_mapping",
                  result |-> get_label_to_parent_mapping(input.tree)]
    /\ UNCHANGED <<batchVars, genVars, input>>

\* tree.to_dataframe(leaves_only)
ToDataframe(leaves_only) ==
    /\ input.kind = "tree"
    /\ output = NoInput
    /\ output' = [op |-> "to_dataframe", leaves_only |-> leaves_only,
                  result |-> to_dataframe(input.tree, leaves_only)]
    /\ UNCHANGED <<batchVars, genVars, input>>

\* responses written as Python literals, as noise, or inside a fence
LiteralTexts ==
    {<<"{", "1", ":", " ", "2", "}">>,
     <<"{", Quote("label"), ":", " ", Quote("A"), ",", " ", "1", ":", " ", "2", "}">>,
     <<"[", "1", ",", " ", "2", "]">>,
     <<"[", "1", ",", "]">>,
     <<"(", "1", ")">>,
     <<"(", "1", ",", ")">>,
     <<"null">>,
     <<"j", "s", "o", "n">>,
     <<>>,
     <<"{", Quote("label"), ":", " ", Quote("A"), ",", " ", Quote("node"), ":", " ", "1", ",",
       " ", Quote("summary"), ":", " ", Quote("s"), ",", " ", Quote("children"), ":", " ",
       "[", "]", ",", "}">>}

\* the responses: the JSON texts of the parsed values, those texts inside a fence,
\* and the literal texts
ResponseInputs(n) ==
    {[kind |-> "response", text |-> json_dumps(ValueFrom(s, FALSE), 0)] :
        s \in Shapes(n, ValueVariants)}
    \cup {[kind |-> "response",
           text |-> Fenced(<<"j", "s", "o", "n">>, json_dumps(ValueFrom(s, FALSE), 0))] :
            s \in Shapes(1, ValueVariants)}
    \cup {[kind |-> "response", text |-> x] : x \in LiteralTexts}

\* self._parse_llm_to_themetree(mindmap_text), where mindmap_text is a response or,
\* for a tree, the text tree.to_json() wrote
ParseResponse ==
    /\ input.kind \in {"response", "tree"}
    /\ output = NoInput
    /\ LET mindmap_text == IF input.kind = "tree" THEN to_json_text(input.tree)
                                                  ELSE input.text
       IN  output' = [op |-> IF input.kind = "tree" THEN "parse_to_json" ELSE "parse",
                      result |-> parse_llm_to_themetree(mindmap_text)]
    /\ UNCHANGED <<batchVars, genVars, input>>

InitTree ==
    /\ InitNoBatch
    /\ InitOrchestrator
    /\ input \in TreeInputs(MaxNodes) \cup ValueInputs(MaxNodes) \cup ResponseInputs(MaxNodes)
    /\ output = NoInput

NextTree ==
    \/ RoundTrip
    \/ BuildFromParsed
    \/ Validate
    \/ ParseResponse
    \/ TerminalLabels
    \/ LabelToParent
    \/ \E leaves_only \in BOOLEAN : ToDataframe(leaves_only)

SpecTree == InitTree /\ [][NextTree]_vars


(* ---------------- the normalisation, applied to one text ---------------- *)
\* the characters of the texts: fence, letter, white space, brackets, any other
Alphabet == {Backtick, "j", " ", "\n", "{", "[", "(", "}"}

RECURSIVE TextsUpTo(_)
\* the texts of at most n characters
TextsUpTo(n) ==
    IF n = 0 THEN {<<>>}
    ELSE LET shorter == TextsUpTo(n - 1)
         IN  shorter \cup {Append(s, c) : s \in {x \in shorter : Len(x) = n - 1}, c \in Alphabet}

\* a JSON object text free of backquotes
Payloads(n) ==
    {<<"{">> \o s \o <<"}">> :
        s \in {x \in TextsUpTo(n - 2) : \A k \in 1..Len(x) : x[k] # Backtick}}

TextInputs(n) ==
    {[kind |-> "text", text |-> s] : s \in TextsUpTo(n)}
    \cup {[kind |-> "fenced", text |-> Fenced(tag, p), payload |-> p] :
            tag \in {<<>>, <<"j", "s", "o", "n">>}, p \in Payloads(n)}

\* lines 103-108 on the response
NormalizeText ==
    /\ output = NoInput
    /\ output' = [op |-> "normalize", text |-> Normalize(input.text), passes |-> 1]
    /\ UNCHANGED <<batchVars, genVars, input>>

\* lines 103-108 on a text they produced
NormalizeAgain ==
    /\ output.op = "normalize"
    /\ output.passes = 1
    /\ output' = [output EXCEPT !.text = Normalize(output.text), !.passes = 2]
    /\ UNCHANGED <<batchVars, genVars, input>>

InitText ==
    /\ InitNoBatch
    /\ InitOrchestrator
    /\ input \in TextInputs(MaxLen)
    /\ output = NoInput

NextText ==
    \/ NormalizeText
    \/ NormalizeAgain

SpecText == InitText /\ [][NextText]_vars

(* ---------------- the batch specification ---------------- *)
InitBatch ==
    /\ prompts \in {[i \in 1..n |-> i] : n \in 0..MaxPrompts}
    /\ max_workers \in 1..MaxWorkers
    /\ processing_callbacks \in BOOLEAN
    /\ engine = [i \in Idx |-> [a \in Attempts |-> "unset"]]
    /\ runner = "idle"
    /\ pc = [i \in Idx |-> "none"]
    /\ attempt = [i \in Idx |-> 0]
    /\ retry_delay = [i \in Idx |-> InitialDelay]
    /\ fetched = [i \in Idx |-> <<>>]
    /\ results = <<>>
    /\ collected = {}
    /\ semaphore = [value |-> 0, waiters |-> <<>>]
    /\ calls = [r \in Runners |-> [i \in Idx |-> 0]]
    /\ returned = [r \in Runners |-> NotCalled]

Init == InitBatch /\ InitOrchestrator /\ InitNoInput

Next ==
    \/ CallParallel
    \/ CallConcurrent
    \/ \E i \in Idx : PSubmit(i)
    \/ \E i \in Idx : PStart(i)
    \/ \E i \in Idx : PCall(i)
    \/ \E i \in Idx : PRespond(i)
    \/ \E i \in Idx : PWake(i)
    \/ \E i \in Idx : PCollect(i)
    \/ PReturn
    \/ \E i \in Idx : CStart(i)
    \/ \E i \in Idx : CResume(i)
    \/ \E i \in Idx : CWake(i)
    \/ \E i \in Idx : CCollect(i)
    \/ CReturn

Spec == Init /\ [][Next]_vars

\* every thread and every cooperative task that can take a step eventually takes it
FairSpec == Spec /\ WF_vars(Next)

TypeOK ==
    /\ runner \in Runners \cup {"idle"}
    /\ \A i \in Idx : attempt[i] \in 0..max_retries
    /\ semaphore.value >= 0

(* ======================= properties of the batch runner ======================= *)
Returned(r) == returned[r].status = "returned"

\* What fetch computes for prompt i under the observed engine: the processed response
\* of the first attempt whose try block completes, or "" when none of the attempts does.
TaskOutcome(i) ==
    LET good == {a \in Attempts : engine[i][a] = "ok"
                                  /\ \A b \in 1..(a - 1) : engine[i][b] \in {"raise", "bad"}}
    IN  IF good = {} THEN "" ELSE Process(Response(i, Min(good)))

\* C1: the result list has the length of the prompt list and entry i holds the
\* outcome of the task submitted for prompt i, in both runners, whatever the
\* completion order and the failures; during the run an entry is either still ""
\* or the value returned by its own task.
C1_OrderPreserved ==
    /\ runner # "idle" =>
         /\ Len(results) = Len(prompts)
         /\ \A i \in Idx : fetched[i] # <<>> => fetched[i][1] = i
         /\ \A i \in Idx : results[i] = IF i \in collected THEN fetched[i][2] ELSE ""
    /\ \A r \in Runners : Returned(r) =>
         /\ Len(returned[r].value) = Len(prompts)
         /\ \A i \in Idx : returned[r].value[i] = TaskOutcome(i)

\* a later prompt's result is stored while the first prompt's task, which has
\* already failed once, is still running
C1_Witness ==
    /\ runner # "idle"
    /\ Len(prompts) >= 2
    /\ 2 \in collected /\ 1 \notin collected
    /\ results[2] # ""
    /\ attempt[1] >= 2 /\ pc[1] # "done"

AlwaysRaises(i) == \A a \in 1..5 : a \in Attempts /\ engine[i][a] = "raise"

\* C2: a task whose engine call raises on every attempt ends with "" after exactly
\* 5 engine invocations, and the batch call returns normally.
C2_Exhaustion ==
    \A r \in Runners :
      /\ Len(prompts) > 0 => returned[r].status # "raised"
      /\ \A i \in Idx : (runner = r /\ pc[i] = "done" /\ engine[i][1] = "raise"
                          /\ \A a \in Attempts : engine[i][a] \in {"raise", "unset"})
                        => (AlwaysRaises(i) /\ calls[r][i] = 5 /\ fetched[i][2] = "")
      /\ \A i \in Idx : (Returned(r) /\ AlwaysRaises(i))
                        => (returned[r].value[i] = "" /\ calls[r][i] = 5)

C2_Witness ==
    \E r \in Runners : \E i \in Idx :
      Returned(r) /\ AlwaysRaises(i) /\ calls[r][i] = 5 /\ returned[r].value[i] = ""

\* C3: a task whose engine call raises on its first k attempts and returns on attempt
\* k+1 yields that attempt's value after exactly k+1 engine invocations.
C3_RetryThenSucceed ==
    \A r \in Runners : \A i \in Idx : \A k \in 0..(max_retries - 1) :
      ( /\ Returned(r)
        /\ \A a \in 1..k : engine[i][a] = "raise"
        /\ engine[i][k + 1] \in {"ok", "bad"} )
      => ( /\ calls[r][i] = k + 1
           /\ returned[r].value[i] = Process(Response(i, k + 1)) )

\* C4: the engine is invoked again for a task only after the engine call itself
\* raised; after an attempt whose response made a transform raise there is no
\* further invocation.
C4_NoRetryOnTransformFailure ==
    \A r \in Runners : \A i \in Idx : \A a \in Attempts :
      engine[i][a] = "bad" => calls[r][i] <= a

\* tasks admitted to a worker: inside fetch before the first engine call, in an
\* engine call, in a backoff sleep, or holding a semaphore slot they were just granted
Admitted(i) == pc[i] \in {"fetch", "in_call", "sleep", "granted"}

\* C5: at most max_workers tasks are inside their retry loop at any moment, in
\* the thread pool and behind the semaphore.
C5_BoundedConcurrency ==
    /\ Cardinality({i \in Idx : Admitted(i)}) <= max_workers
    /\ runner = "concurrent" =>
         semaphore.value = max_workers - Cardinality({i \in Idx : Admitted(i)})

\* the gate is full and a further task is held back
C5_Witness ==
    /\ runner = "concurrent"
    /\ Cardinality({i \in Idx : pc[i] = "sleep"}) = max_workers
    /\ \E i \in Idx : pc[i] = "waiting"

\* C6: with the same inputs and the same engine the two runners return the same
\* list and invoke the engine the same number of times per prompt.
C6_RunnersEquivalent ==
    (Returned("parallel") /\ Returned("concurrent")) =>
      /\ returned["parallel"].value = returned["concurrent"].value
      /\ \A i \in Idx : calls["parallel"][i] = calls["concurrent"][i]

C6_Witness ==
    /\ Returned("parallel") /\ Returned("concurrent")
    /\ Len(prompts) >= 2
    /\ \E i \in Idx : calls["parallel"][i] = max_retries /\ returned["concurrent"].value[i] = ""
    /\ \E i \in Idx : calls["concurrent"][i] >= 2 /\ returned["parallel"].value[i] # ""

\* C7: a batch call returns only when every task is finished and its value stored,
\* and every batch call that was entered returns.
C7_ReturnsWhenAllDone ==
    /\ [][\A r \in Runners : (~Returned(r) /\ Returned(r)') =>
            /\ \A i \in Idx : pc[i] = "done" /\ i \in collected
            /\ \A i \in Idx : returned[r].value'[i] = fetched[i][2]]_vars
    /\ \A r \in Runners : (returned[r].status = "running") ~> Returned(r)

\* a call has returned although one of its tasks went through all its attempts
C7_Witness ==
    \E r \in Runners :
      /\ Returned(r) /\ Len(prompts) >= 2
      /\ \E i \in Idx : calls[r][i] = max_retries
      /\ \A i \in Idx : pc[i] = "done"

(* ======================= properties of the orchestrator ======================= *)
\* the text fails parsing, validation or tree building
ParseFails(text) == text \in {"not_json", "bad_schema", "bad_value"}

\* C8: when the engine's text fails parsing, validation or building, generate_refined
\* returns (None, bundle) with an 'error' field and an empty mindmap_json, and the file
\* output_dir/filename then holds that bundle, written once, as a success bundle is.
C8_ErrorBundlePersisted ==
    (last.op = "generate_refined" /\ ~last.reply.raises) =>
      /\ ~last.raised
      /\ last.writes = 1
      /\ disk[last.filename] = Persisted(last.bundle)
      /\ ParseFails(last.reply.text) =>
           /\ last.tree = None
           /\ "error" \in DOMAIN last.bundle
           /\ last.bundle.mindmap_json = ""
           /\ last.bundle.mindmap_text = last.reply.text
      /\ last.reply.text \in {"leaf_tree", "deep_tree"} =>
           /\ last.tree = TreeOf(last.reply.text)
           /\ "error" \notin DOMAIN last.bundle

\* an error bundle has replaced the success bundle a previous call left in the file
C8_Witness ==
    /\ last.op = "generate_refined"
    /\ last.reply.text = "bad_schema"
    /\ last.before # Absent
    /\ "error" \notin DOMAIN last.before
    /\ "error" \in DOMAIN disk[last.filename]

\* C9: when the engine raises during generate_refined, the call does not raise but
\* returns a None tree with an error bundle.
C9_EngineFailureCaught ==
    (last.op = "generate_refined" /\ last.reply.raises) =>
      /\ ~last.raised
      /\ last.tree = None
      /\ "error" \in DOMAIN last.bundle

\* C10: generate_one_shot invokes the engine exactly once; when the engine raises or
\* the text fails the pipeline the exception reaches the caller, no tree and no
\* bundle are returned; nothing is ever written to disk.
C10_OneShotPropagates ==
    [][(ncalls' # ncalls /\ last'.op = "generate_one_shot") =>
         /\ llm_calls' = llm_calls + 1
         /\ disk' = disk
         /\ last'.writes = 0
         /\ (last'.reply.raises \/ ParseFails(last'.reply.text)) =>
              (last'.raised /\ last'.tree = None /\ last'.bundle = None)
         /\ last'.reply.text \in {"leaf_tree", "deep_tree"} =>
              (~last'.raised /\ last'.tree = TreeOf(last'.reply.text))]_vars

\* a one-shot call on a text that violates the schema has raised, with a result
\* file of an earlier refinement on disk
C10_Witness ==
    /\ last.op = "generate_one_shot"
    /\ last.reply.text = "bad_schema"
    /\ last.raised
    /\ \E f \in Files : disk[f] # Absent

\* C11: when the result file of index i exists, generate_or_load_refined makes no
\* engine invocation, returns the content of the file and leaves the disk unchanged,
\* for a stored success bundle and for a stored error bundle.
C11_LoadsExistingFile ==
    [][(ncalls' # ncalls /\ last'.op = "generate_or_load_refined"
        /\ disk[last'.filename] # Absent) =>
         /\ llm_calls' = llm_calls
         /\ disk' = disk
         /\ ~last'.raised
         /\ last'.result = disk[last'.filename]]_vars

\* an error bundle stored by an earlier call has been loaded and returned
C11_Witness ==
    /\ last.op = "generate_or_load_refined"
    /\ last.before # Absent
    /\ "error" \in DOMAIN last.result
    /\ llm_calls < ncalls

\* C12: when no result file exists for index i, a result file for index i exists
\* once generate_or_load_refined has returned.
C12_PersistedAfterGenerate ==
    (last.op = "generate_or_load_refined" /\ last.before = Absent) =>
      disk[last.filename] # Absent

\* the call in progress, or the one that has just ended
DynView == IF dyn.pc = "idle" THEN last ELSE dyn

\* the mindmap_json the step before refinement j produced
PrevJson(d, j) ==
    IF j > 1 THEN DictGet(d.results, d.month_names[j - 1]).mindmap_json
    ELSE IF d.initial_mindmap.given THEN d.initial_mindmap.text
    ELSE DictGet(d.results, "base_mindmap").mindmap_json

\* C13: generate_dynamic refines interval after interval in order; refinement j is
\* sent the mindmap_json of the step before it (the supplied tree or the one-shot
\* result for the first), its result is stored under the j-th interval name, and
\* exactly one one-shot generation comes first when no initial tree is supplied.
C13_SequentialChain ==
    LET d == DynView
    IN  ("sent" \in DOMAIN d) =>
          /\ \A j \in 1..Len(d.sent) : d.sent[j] = PrevJson(d, j)
          /\ \A j \in 1..d.k :
               /\ DictHas(d.results, d.month_names[j])
               /\ DictGet(d.results, d.month_names[j]).mindmap_text = d.replies[j].text
          /\ DictKeys(d.results) =
               (IF DictHas(d.results, "base_mindmap") THEN <<"base_mindmap">> ELSE <<>>)
               \o SubSeq(d.month_names, 1, d.k)
          /\ DictHas(d.results, "base_mindmap") => ~d.initial_mindmap.given
          /\ (d.sent # <<>>) => d.one_shots = (IF d.initial_mindmap.given THEN 0 ELSE 1)
          /\ d.one_shots <= 1

\* a chain of two refinements after a one-shot generation, the second one sent the
\* tree the first one returned
C13_Witness ==
    /\ last.op = "generate_dynamic"
    /\ ~last.raised
    /\ ~last.initial_mindmap.given
    /\ Len(last.sent) = 2
    /\ last.sent[2] # last.sent[1]
    /\ last.sent[2] # ""

\* C14: rebuilding a tree from its own dictionary form gives an equal tree:
\* from_dict(T._to_dict()) = T, with labels, node ids, summaries, keywords and
\* children in their order.
C14_DictRoundTrip ==
    (output.op = "from_dict") =>
        output.result = [type |-> "MindMap", tree |-> input.tree]

\* a round trip of a tree whose root has keywords and a child that has a child
C14_Witness ==
    /\ output.op = "from_dict"
    /\ input.tree.keywords # <<>>
    /\ Len(input.tree.children) = 1
    /\ Len(input.tree.children[1].children) = 1
    /\ output.result.type = "MindMap"

\* C15: the text to_json returns for a tree goes through the parsing pipeline
\* (normalise, parse, validate, build) without failure and gives the tree back.
C15_JsonRoundTrip ==
    (output.op = "parse_to_json") =>
        output.result = [type |-> "MindMap", tree |-> input.tree]

\* C16: normalising is idempotent: normalising a text that is already the result
\* of a normalisation leaves it as it is.
C16_NormalizeIdempotent ==
    [][(output.op = "normalize" /\ output'.op = "normalize") => output'.text = output.text]_vars

\* C17: a JSON object text P without backquotes, wrapped in a fence with a language
\* tag line before it and a closing fence line after it, normalises to exactly P.
C17_FenceUnwrapped ==
    (input.kind = "fenced" /\ output.op = "normalize" /\ output.passes = 1) =>
        output.text = input.payload

\* C18: field names are case-insensitive at every depth: a parsed response whose keys
\* are spelt in any mix of cases, in the root or in a nested child, validates and
\* builds to the same result as the same response with all keys in lower case.
C18_KeysCaseInsensitive ==
    (output.op = "build") =>
        output.result = TreeFromParsed(ValueFrom(input.shape, TRUE))

\* a tree built from a response whose root and whose child use different mixed spellings
C18_Witness ==
    /\ output.op = "build"
    /\ output.result.type = "MindMap"
    /\ input.shape[1].style = "mixed"
    /\ Len(input.shape[2]) = 1
    /\ input.shape[2][1][1].style = "UPPER"
    /\ Len(input.shape[2][1][2]) = 1
    /\ input.shape[2][1][2][1][1].style = "mixed"

RECURSIVE Conforms(_)
\* the schema: a mapping with exactly the keys label, node, summary, children, none
\* of them null, children a list of values that conform
Conforms(v) ==
    /\ v.type = "dict"
    /\ PyKeys(v) = {PyStr("label"), PyStr("node"), PyStr("summary"), PyStr("children")}
    /\ \A k \in 1..Len(v.v) : v.v[k][2].type # "NoneType"
    /\ PyGet(v, "children").type = "list"
    /\ \A k \in 1..Len(PyGet(v, "children").v) : Conforms(PyGet(v, "children").v[k])

\* C19: the validator accepts a parsed, lower-cased value if and only if every node
\* reachable through children is a mapping with only the keys label, node, summary,
\* children, all four present and not null, and children a list.
C19_ValidatorAcceptsSchema ==
    (output.op = "validate") => (output.result.ok <=> Conforms(output.tree_dict))

\* a value of three nested nodes that the validator accepts
C19_Witness ==
    /\ output.op = "validate"
    /\ output.result.ok
    /\ Len(input.shape[2]) = 1
    /\ Len(input.shape[2][1][2]) = 1

\* a node breaks the schema by itself
Violates(v) ==
    \/ v.type # "dict"
    \/ /\ v.type = "dict"
       /\ \/ PyKeys(v) # {PyStr("label"), PyStr("node"), PyStr("summary"), PyStr("children")}
          \/ \E k \in 1..Len(v.v) : v.v[k][2].type = "NoneType"
          \/ PyGet(v, "children").type # "list"

RECURSIVE ViolatingPaths(_, _)
\* the paths of the nodes that break the schema, child i of a node at p being at
\* p -> children[i], i counted from 0
ViolatingPaths(v, path) ==
    (IF Violates(v) THEN {path} ELSE {})
    \cup (IF v.type = "dict" /\ PyHas(v, "children") /\ PyGet(v, "children").type = "list"
          THEN UNION {ViolatingPaths(PyGet(v, "children").v[k],
                                     path \o " -> children[" \o ToString(k - 1) \o "]") :
                        k \in 1..Len(PyGet(v, "children").v)}
          ELSE {})

\* C20: a validation failure names the path of a node that breaks the schema, root
\* followed by -> children[i] for every index on the way down; when exactly one node
\* breaks the schema the path is that node's.
C20_FailureNamesPath ==
    (output.op = "validate" /\ ~output.result.ok) =>
        LET paths == ViolatingPaths(output.tree_dict, "root")
        IN  /\ output.result.path \in paths
            /\ Cardinality(paths) = 1 => paths = {output.result.path}

\* the second child of the root is the only node that breaks the schema
C20_Witness ==
    /\ output.op = "validate"
    /\ ~output.result.ok
    /\ output.result.path = "root -> children[1]"
    /\ ViolatingPaths(output.tree_dict, "root") = {"root -> children[1]"}

RECURSIVE WellFormed(_)
\* a tree whose every node has the fields of a MindMap and a list of such trees as children
WellFormed(t) ==
    /\ DOMAIN t = {"label", "node", "summary", "children", "keywords"}
    /\ \A k \in 1..Len(t.children) : WellFormed(t.children[k])

\* C21: the parse pipeline has two outcomes only: for every response text it returns
\* a well-formed tree or raises ValueError; no other exception type escapes.
C21_ParseTotal ==
    (output.op = "parse") =>
        \/ output.result.type = "MindMap" /\ WellFormed(output.result.tree)
        \/ output.result.type = "raise" /\ output.result.error = "ValueError"

RECURSIVE Subtrees(_)
\* the nodes of a tree, each with its subtree
Subtrees(t) == {t} \cup UNION {Subtrees(t.children[k]) : k \in 1..Len(t.children)}

\* C22: the labels get_terminal_labels returns are exactly the labels of the nodes
\* without children, each once; the label of a node with children appears only when a
\* leaf carries the same label.
C22_TerminalLabels ==
    (output.op = "get_terminal_labels") =>
        /\ {output.result[k] : k \in 1..Len(output.result)}
             = {n.label : n \in {m \in Subtrees(input.tree) : m.children = <<>>}}
        /\ \A j, k \in 1..Len(output.result) : output.result[j] = output.result[k] => j = k

\* the terminal labels of a tree whose root carries the label of one of its two leaves
C22_Witness ==
    /\ output.op = "get_terminal_labels"
    /\ Len(input.tree.children) = 2
    /\ input.tree.children[1].label = input.tree.label
    /\ input.tree.children[2].label # input.tree.label
    /\ Len(output.result) = 2

\* C23: get_label_to_parent_mapping maps the label of every leaf that has a parent
\* to the label of its immediate parent, and neither the root's label nor the label
\* of a node with children is a key.
C23_LabelToParent ==
    (output.op = "get_label_to_parent_mapping") =>
        /\ \A p \in Subtrees(input.tree) : \A k \in 1..Len(p.children) :
             p.children[k].children = <<>> =>
               /\ DictHas(output.result, p.children[k].label)
               /\ DictGet(output.result, p.children[k].label) = p.label
        /\ ~DictHas(output.result, input.tree.label)
        /\ \A n \in Subtrees(input.tree) :
             n.children # <<>> => ~DictHas(output.result, n.label)

\* C24: to_dataframe(leaves_only=False) holds one row for every node other than the
\* root, in pre-order, each with the label of its parent; only the root's own row is
\* left out, so the children of the root appear with the root's label as Parent.
C24_DataframeAllButRoot ==
    (output.op = "to_dataframe" /\ ~output.leaves_only) =>
        output.result.DataFrame = Tail(to_rows(input.tree, None))

\* the labels of the nodes differ pairwise
DistinctLabels(t) ==
    LET rows == to_rows(t, None)
    IN  \A j, k \in 1..Len(rows) : rows[j].Label = rows[k].Label => j = k

\* C25: for a tree with distinct labels, to_dataframe(leaves_only=True) holds exactly
\* the rows of the leaves other than the root, at any depth, the leaves that are
\* children of the root included.
C25_DataframeLeaves ==
    (output.op = "to_dataframe" /\ output.leaves_only /\ DistinctLabels(input.tree)) =>
        output.result.DataFrame =
            SelectSeq(Tail(to_rows(input.tree, None)),
                      LAMBDA row : \E n \in Subtrees(input.tree) :
                                      n.label = row.Label /\ n.children = <<>>)

(* ---------------- C26 ---------------- *)
\* C26: in both runners the delay a task sleeps after its k-th failed attempt is
\* min(2^(k-1), 60): 1 after the first failure, doubled after every failure,
\* never more than 60, and each task has its own delay.
Asleep(i) == runner # "idle" /\ pc[i] = "sleep"

ExpectedDelay(k) == IF 2^(k - 1) < MaxDelay THEN 2^(k - 1) ELSE MaxDelay

C26_BackoffDelay ==
    \A i \in Idx :
        Asleep(i) =>
            /\ retry_delay[i] = ExpectedDelay(attempt[i])
            /\ retry_delay[i] >= InitialDelay
            /\ retry_delay[i] <= MaxDelay

\* two tasks of one batch asleep at once, one after its first failure with delay 1
\* and one after its fourth failure with delay 8
C26_Witness ==
    \E r \in Runners : \E i, j \in Idx :
        /\ runner = r
        /\ Asleep(i) /\ attempt[i] = 1 /\ retry_delay[i] = 1
        /\ Asleep(j) /\ attempt[j] = 4 /\ retry_delay[j] = 8

(* ---------------- C27 ---------------- *)
\* C27: a backoff sleep happens only before a retry: a task that is asleep has
\* attempts left, so a task that failed all 5 attempts sleeps 4 times and does not
\* sleep after its last failed attempt.
C27_SleepOnlyBeforeRetry ==
    \A i \in Idx : Asleep(i) => attempt[i] < max_retries

(* ---------------- C28 ---------------- *)
\* the engine call of task i has begun and has not ended
InCall(i) == runner # "idle" /\ pc[i] = "in_call"

\* the step in which task i of runner r begins an engine call
BeginsCall(r, i) == runner = r /\ calls'[r][i] = calls[r][i] + 1

\* C28: in the cooperative runner a task yields control at its request-engine
\* call: the step that begins the call leaves the call in progress, so that other
\* admitted tasks can run, and begin their own calls, before it ends.
C28_YieldsAtEngineCall ==
    [][\A i \in Idx : BeginsCall("concurrent", i) => InCall(i)']_vars

\* In the cooperative runner no engine call is in progress in any state, whatever
\* max_workers is.
NoCooperativeCallInFlight ==
    runner = "concurrent" => \A i \in Idx : ~InCall(i)

(* ---------------- C29 ---------------- *)
\* the engine has raised on no attempt and no transform has raised so far
NeverFailed == \A i \in Idx : \A a \in Attempts : engine[i][a] \in {"unset", "ok"}

\* C29: with a never-failing engine and max_workers at least the number of
\* prompts, both runners invoke the engine for the prompts in submission order:
\* at every moment the prompts served so far are the first ones of the list, so
\* the k-th invocation serves the k-th prompt.
C29_InvokedInSubmissionOrder ==
    \A r \in Runners : \A i, j \in Idx :
        ( /\ runner = r
          /\ NeverFailed
          /\ max_workers >= Len(prompts)
          /\ i < j
          /\ calls[r][j] > 0 )
        => calls[r][i] > 0

====
